---------------------------- MODULE Spec2Model ----------------------------
(***************************************************************************)
(* add_files_to_xcode.py: registration of a list of source files in an     *)
(* Xcode project descriptor (project.pbxproj).                             *)
(*                                                                         *)
(* The descriptor is modelled as a sequence of lexical items (tokens):     *)
(* the four anchor texts the script's regular expressions look for, the    *)
(* structural items that delimit objects and lists, pre-existing text,     *)
(* and the four kinds of line the script generates.  A path is a sequence  *)
(* of characters, so that filepath.split('/')[-1] is computed.             *)
(* uuid.uuid4() is modelled by its contract: every call yields a value     *)
(* never yielded before and not present in the document (pre-existing      *)
(* text carries no generated identifier).                                  *)
(***************************************************************************)
EXTENDS Naturals, Sequences, FiniteSets

\* ------------------------------------------------------------------ bounds
MaxFiles == 2       \* longest input list (NEW_FILES) explored
MaxReps  == 2       \* most times one anchor text occurs in a document
MaxRuns  == 2       \* invocations of the script in sequence

\* ------------------------------------------------------------------- paths
Paths == { <<"A", "/", "B">>, <<"B">> }

RECURSIVE LastSlash(_, _)
\* index of the last '/' of s at or before position k, 0 when there is none
LastSlash(s, k) ==
    IF k = 0 THEN 0
    ELSE IF s[k] = "/" THEN k
    ELSE LastSlash(s, k - 1)

\* filepath.split('/')[-1]
Filename(filepath) ==
    SubSeq(filepath, LastSlash(filepath, Len(filepath)) + 1, Len(filepath))

RECURSIVE ListsUpTo(_)
ListsUpTo(n) ==
    IF n = 0 THEN { <<>> }
    ELSE ListsUpTo(n - 1) \cup
         { Append(l, p) : l \in { x \in ListsUpTo(n - 1) : Len(x) = n - 1 }, p \in Paths }

FileLists == { l \in ListsUpTo(MaxFiles) : Len(l) >= 1 }

\* ------------------------------------------------------------------ tokens
Tok(k) == [kind |-> k, id |-> 0, ref |-> 0, name |-> <<>>, path |-> <<>>]

EndBuildFile == Tok("EndBuildFile")     \* /* End PBXBuildFile section */
EndFileRef   == Tok("EndFileRef")       \* /* End PBXFileReference section */
MainGroup    == Tok("MainGroup")        \* IC0000150000000000000001 = {
SourcesPhase == Tok("SourcesPhase")     \* IC0000190000000000000001 /* Sources */ = {
OtherNode    == Tok("OtherNode")        \* <any other identifier> = {
Children     == Tok("Children")         \* children = (
Files        == Tok("Files")            \* files = (
ListEnd      == Tok("ListEnd")          \* );
Close        == Tok("Close")            \* };
Text         == Tok("Text")             \* any other pre-existing line

\* variant: the fileRef field is filled with the build-file identifier
BuildFileEntry_SelfRef(build_id, filename, file_ref_id) ==
    [kind |-> "BuildFileEntry", id |-> build_id, ref |-> build_id,
     name |-> filename, path |-> <<>>]

BuildFileEntry(build_id, filename, file_ref_id) ==
    [kind |-> "BuildFileEntry", id |-> build_id, ref |-> file_ref_id,
     name |-> filename, path |-> <<>>]

FileRefEntry(file_ref_id, filename, filepath) ==
    [kind |-> "FileRefEntry", id |-> file_ref_id, ref |-> 0,
     name |-> filename, path |-> filepath]

GroupEntry(file_ref_id, filename) ==
    [kind |-> "GroupEntry", id |-> file_ref_id, ref |-> 0,
     name |-> filename, path |-> <<>>]

SourceEntry(build_id, filename) ==
    [kind |-> "SourceEntry", id |-> build_id, ref |-> 0,
     name |-> filename, path |-> <<>>]

EntryKinds == {"BuildFileEntry", "FileRefEntry", "GroupEntry", "SourceEntry"}

\* --------------------------------------------------------------- documents
RECURSIVE Rep(_, _)
Rep(s, n) == IF n = 0 THEN <<>> ELSE s \o Rep(s, n - 1)

\* the PBXBuildFile section with its End marker occurring b times
BuildSection(b) == Rep(<<Text, EndBuildFile>>, b)

\* the PBXFileReference section with its End marker occurring f times
FileRefSection(f) == Rep(<<Text, EndFileRef>>, f)

\* the PBXGroup section: g objects under the main-group identifier, with a
\* children list of their own or without one, and another group after them
GroupSection(g, own) ==
    Rep(<<MainGroup>> \o (IF own THEN <<Children, Text, ListEnd>> ELSE <<>>) \o <<Close>>, g)
    \o <<OtherNode, Children, Text, ListEnd, Close>>

\* the build phases: s objects under the Sources identifier, with a files
\* list of their own or without one, and another build phase after them
SourcesSection(s, own) ==
    Rep(<<SourcesPhase>> \o (IF own THEN <<Files, Text, ListEnd>> ELSE <<>>) \o <<Close>>, s)
    \o <<OtherNode, Files, Text, ListEnd, Close>>

Anchors == {"build", "fileref", "group", "sources"}

\* the documents explored: any subset of the four anchors present, each
\* present anchor occurring r times, the two identified objects with or
\* without a list of their own
Documents ==
    { BuildSection(IF "build" \in present THEN r ELSE 0)
      \o FileRefSection(IF "fileref" \in present THEN r ELSE 0)
      \o GroupSection(IF "group" \in present THEN r ELSE 0, own)
      \o SourcesSection(IF "sources" \in present THEN r ELSE 0, own) :
        present \in SUBSET Anchors, r \in 1..MaxReps, own \in BOOLEAN }

\* ------------------------------------------------------------ dictionaries
\* A Python dict: a sequence of <<key, value>> pairs in insertion order.
DictHas(d, k) == \E j \in DOMAIN d : d[j][1] = k

DictGet(d, k) == d[CHOOSE j \in DOMAIN d : d[j][1] = k][2]

\* d[k] = v : an existing key keeps its place and takes the new value
DictSet(d, k, v) ==
    IF DictHas(d, k)
    THEN [j \in DOMAIN d |-> IF d[j][1] = k THEN <<k, v>> ELSE d[j]]
    ELSE Append(d, <<k, v>>)

\* ------------------------------------------------------------------ re.sub
RECURSIVE SubBeforeFrom(_, _, _, _)
SubBeforeFrom(d, marker, ins, k) ==
    IF k > Len(d) THEN <<>>
    ELSE IF d[k] = marker
         THEN ins \o <<d[k]>> \o SubBeforeFrom(d, marker, ins, k + 1)
         ELSE <<d[k]>> \o SubBeforeFrom(d, marker, ins, k + 1)

RECURSIVE SubBehindFrom(_, _, _, _)
SubBehindFrom(d, marker, ins, k) ==
    IF k > Len(d) THEN <<>>
    ELSE IF d[k] = marker
         THEN <<d[k]>> \o ins \o SubBehindFrom(d, marker, ins, k + 1)
         ELSE <<d[k]>> \o SubBehindFrom(d, marker, ins, k + 1)

\* variant: the replacement is r'\1' + ins, the lines land behind the marker
SubBefore_Behind(d, marker, ins) == SubBehindFrom(d, marker, ins, 1)

\* re.sub(r'(marker)', ins + r'\1', d): count = 0, every match is replaced
SubBefore(d, marker, ins) == SubBeforeFrom(d, marker, ins, 1)

\* the least j > k with d[j] = tail, 0 when there is none
FirstAfter(d, tail, k) ==
    IF \E j \in (k + 1)..Len(d) : d[j] = tail
    THEN CHOOSE j \in (k + 1)..Len(d) :
            d[j] = tail /\ \A m \in (k + 1)..(j - 1) : d[m] # tail
    ELSE 0

RECURSIVE SubAfterFrom(_, _, _, _, _)
SubAfterFrom(d, head, tail, ins, k) ==
    IF k > Len(d) THEN <<>>
    ELSE IF d[k] = head /\ FirstAfter(d, tail, k) # 0
         THEN SubSeq(d, k, FirstAfter(d, tail, k)) \o ins
              \o SubAfterFrom(d, head, tail, ins, FirstAfter(d, tail, k) + 1)
         ELSE <<d[k]>> \o SubAfterFrom(d, head, tail, ins, k + 1)

\* variant: without a match the lines are appended to the document
SubAfter_Append(d, head, tail, ins) ==
    IF \E k \in DOMAIN d : d[k] = head /\ FirstAfter(d, tail, k) # 0
    THEN SubAfterFrom(d, head, tail, ins, 1)
    ELSE d \o ins

\* re.sub(r'(head[\s\S]*?tail)', r'\1' + ins, d): the lazy span from a head to
\* the nearest following tail, whatever lies between; every match is replaced
SubAfter(d, head, tail, ins) == SubAfterFrom(d, head, tail, ins, 1)

\* ------------------------------------------------------------- identifiers
\* variant: identifiers drawn from a generator that repeats after four draws
generate_id_Repeating(issued) == (issued % 4) + 1

\* generate_id(): the first 12 bytes of a fresh uuid4 as 24 hex digits; issued
\* is the number of identifiers handed out so far, the result the next one
generate_id(issued) == issued + 1

\* ----------------------------------------------------------- entry building
\* build_file_entries: one line per item of build_files, in dict order
BuildFileEntries(bf, fr) ==
    [j \in DOMAIN bf |->
        BuildFileEntry(bf[j][2], Filename(bf[j][1]), DictGet(fr, bf[j][1]))]

\* file_ref_entries: one line per item of file_refs, in dict order
FileRefEntries(fr) ==
    [j \in DOMAIN fr |-> FileRefEntry(fr[j][2], Filename(fr[j][1]), fr[j][1])]

\* variant: the items come out in reverse list order
GroupEntries_Reversed(fl, fr) ==
    [j \in DOMAIN fl |->
        GroupEntry(DictGet(fr, fl[Len(fl) + 1 - j]), Filename(fl[Len(fl) + 1 - j]))]

\* group_entries: one item per element of NEW_FILES, in list order
GroupEntries(fl, fr) ==
    [j \in DOMAIN fl |-> GroupEntry(DictGet(fr, fl[j]), Filename(fl[j]))]

\* source_entries: one item per element of NEW_FILES, in list order
SourceEntries(fl, bf) ==
    [j \in DOMAIN fl |-> SourceEntry(DictGet(bf, fl[j]), Filename(fl[j]))]

\* ------------------------------------------------------------------ console
Banner(n) == [line |-> "banner", count |-> n, path |-> <<>>]
PathLine(p) == [line |-> "path", count |-> 0, path |-> p]

\* ------------------------------------------------------------------- state
VARIABLES
    files,          \* NEW_FILES, the ordered list of paths
    disk,           \* the descriptor file's content on disk
    before,         \* the on-disk content when the current run started
    content,        \* the in-memory text buffer
    file_refs,      \* dict path -> file-reference identifier
    build_files,    \* dict path -> build-file identifier
    generated,      \* identifiers generate_id() returned during this run
    uuids,          \* number of identifiers uuid4 has issued so far
    idx,            \* position of the running for-loop
    out,            \* lines printed on standard output during this run
    pc,             \* the run's position
    runs,           \* number of the current run
    log             \* the completed runs: what each generated and wrote

vars == <<files, disk, before, content, file_refs, build_files, generated,
          uuids, idx, out, pc, runs, log>>

Init ==
    /\ files \in FileLists
    /\ disk \in Documents
    /\ before = disk
    /\ content = <<>>
    /\ file_refs = <<>>
    /\ build_files = <<>>
    /\ generated = {}
    /\ uuids = 0
    /\ idx = 1
    /\ out = <<>>
    /\ pc = "read"
    /\ runs = 1
    /\ log = <<>>

\* open(project_path, 'r') / f.read() raise: the run ends with the exception
ReadFails ==
    /\ pc = "read"
    /\ pc' = "failed"
    /\ UNCHANGED <<files, disk, before, content, file_refs, build_files,
                   generated, uuids, idx, out, runs, log>>

ReadProject ==
    /\ pc = "read"
    /\ content' = disk
    /\ file_refs' = <<>>
    /\ build_files' = <<>>
    /\ idx' = 1
    /\ pc' = "generate"
    /\ UNCHANGED <<files, disk, before, generated, uuids, out, runs, log>>

\* for filepath in NEW_FILES: one iteration, two identifiers
GenerateIds ==
    /\ pc = "generate"
    /\ idx <= Len(files)
    /\ LET ref_id == generate_id(uuids)
           bld_id == generate_id(uuids + 1)
       IN /\ file_refs' = DictSet(file_refs, files[idx], ref_id)
          /\ build_files' = DictSet(build_files, files[idx], bld_id)
          /\ generated' = generated \cup {ref_id, bld_id}
    /\ uuids' = uuids + 2
    /\ idx' = idx + 1
    /\ UNCHANGED <<files, disk, before, content, out, pc, runs, log>>

\* the PBXBuildFile section
InsertBuildFiles ==
    /\ pc = "generate"
    /\ idx > Len(files)
    /\ content' = SubBefore(content, EndBuildFile,
                            BuildFileEntries(build_files, file_refs))
    /\ pc' = "filerefs"
    /\ UNCHANGED <<files, disk, before, file_refs, build_files, generated,
                   uuids, idx, out, runs, log>>

\* the PBXFileReference section
InsertFileRefs ==
    /\ pc = "filerefs"
    /\ content' = SubBefore(content, EndFileRef, FileRefEntries(file_refs))
    /\ pc' = "group"
    /\ UNCHANGED <<files, disk, before, file_refs, build_files, generated,
                   uuids, idx, out, runs, log>>

\* the main group's children
InsertGroup ==
    /\ pc = "group"
    /\ content' = SubAfter(content, MainGroup, Children,
                           GroupEntries(files, file_refs))
    /\ pc' = "sources"
    /\ UNCHANGED <<files, disk, before, file_refs, build_files, generated,
                   uuids, idx, out, runs, log>>

\* variant: the Sources items carry the file-reference identifiers
InsertSources_FileRefIds ==
    /\ pc = "sources"
    /\ content' = SubAfter(content, SourcesPhase, Files,
                           SourceEntries(files, file_refs))
    /\ pc' = "open"
    /\ UNCHANGED <<files, disk, before, file_refs, build_files, generated,
                   uuids, idx, out, runs, log>>

\* the Sources build phase
InsertSources ==
    /\ pc = "sources"
    /\ content' = SubAfter(content, SourcesPhase, Files,
                           SourceEntries(files, build_files))
    /\ pc' = "open"
    /\ UNCHANGED <<files, disk, before, file_refs, build_files, generated,
                   uuids, idx, out, runs, log>>

\* open(project_path, 'w') raises: nothing was touched
OpenFails ==
    /\ pc = "open"
    /\ pc' = "failed"
    /\ UNCHANGED <<files, disk, before, content, file_refs, build_files,
                   generated, uuids, idx, out, runs, log>>

\* variant: the banner is printed before the content is written
OpenForWrite_Announces ==
    /\ pc = "open"
    /\ disk' = <<>>
    /\ out' = Append(out, Banner(Len(files)))
    /\ pc' = "write"
    /\ UNCHANGED <<files, before, content, file_refs, build_files,
                   generated, uuids, idx, runs, log>>

\* open(project_path, 'w') succeeds: mode 'w' truncates the file
OpenForWrite ==
    /\ pc = "open"
    /\ disk' = <<>>
    /\ pc' = "write"
    /\ UNCHANGED <<files, before, content, file_refs, build_files,
                   generated, uuids, idx, out, runs, log>>

\* f.write(content) or the closing flush raises: some proper prefix is on disk
WriteFails ==
    /\ pc = "write"
    /\ \E k \in 0..(Len(content) - 1) : disk' = SubSeq(content, 1, k)
    /\ pc' = "failed"
    /\ UNCHANGED <<files, before, content, file_refs, build_files,
                   generated, uuids, idx, out, runs, log>>

WriteBack ==
    /\ pc = "write"
    /\ disk' = content
    /\ log' = Append(log, [ids |-> generated, start |-> before, wrote |-> content,
                           refs |-> file_refs, builds |-> build_files])
    /\ pc' = "banner"
    /\ UNCHANGED <<files, before, content, file_refs, build_files,
                   generated, uuids, idx, out, runs>>

PrintBanner ==
    /\ pc = "banner"
    /\ out' = Append(out, Banner(Len(files)))
    /\ idx' = 1
    /\ pc' = "paths"
    /\ UNCHANGED <<files, disk, before, content, file_refs, build_files,
                   generated, uuids, runs, log>>

PrintPath ==
    /\ pc = "paths"
    /\ idx <= Len(files)
    /\ out' = Append(out, PathLine(files[idx]))
    /\ idx' = idx + 1
    /\ UNCHANGED <<files, disk, before, content, file_refs, build_files,
                   generated, uuids, pc, runs, log>>

Finish ==
    /\ pc = "paths"
    /\ idx > Len(files)
    /\ pc' = "done"
    /\ UNCHANGED <<files, disk, before, content, file_refs, build_files,
                   generated, uuids, idx, out, runs, log>>

\* the script is invoked again on the file the previous run wrote
RunAgain ==
    /\ pc = "done"
    /\ runs < MaxRuns
    /\ runs' = runs + 1
    /\ before' = disk
    /\ content' = <<>>
    /\ file_refs' = <<>>
    /\ build_files' = <<>>
    /\ generated' = {}
    /\ idx' = 1
    /\ out' = <<>>
    /\ pc' = "read"
    /\ UNCHANGED <<files, disk, uuids, log>>

Next ==
    \/ ReadFails
    \/ ReadProject
    \/ GenerateIds
    \/ InsertBuildFiles
    \/ InsertFileRefs
    \/ InsertGroup
    \/ InsertSources
    \/ OpenFails
    \/ OpenForWrite
    \/ WriteFails
    \/ WriteBack
    \/ PrintBanner
    \/ PrintPath
    \/ Finish
    \/ RunAgain

Spec == Init /\ [][Next]_vars

\* ======================================================== properties
\* Vocabulary of the properties (not part of the program).

NoDuplicates(l) == \A a, b \in DOMAIN l : a # b => l[a] # l[b]

MarkerCount(d, marker) == Cardinality({ i \in DOMAIN d : d[i] = marker })

HeadTokens == {MainGroup, SourcesPhase, OtherNode}

\* position c opens a list that belongs to the object whose head is at h
OwnsList(d, h, c, opener) ==
    /\ h < c
    /\ d[c] = opener
    /\ \A m \in (h + 1)..(c - 1) : d[m] \notin HeadTokens \cup {Close, opener}

\* position i lies inside a list (opened by opener) of an object headed by head
InListOf(d, i, head, opener) ==
    \E h \in DOMAIN d, c \in DOMAIN d :
        /\ d[h] = head
        /\ OwnsList(d, h, c, opener)
        /\ c < i
        /\ \A m \in (c + 1)..i : d[m] \notin {ListEnd, Close}

\* every anchor occurs exactly once, the two identified objects with their list
WellAnchored(d) ==
    /\ MarkerCount(d, EndBuildFile) = 1
    /\ MarkerCount(d, EndFileRef) = 1
    /\ MarkerCount(d, MainGroup) = 1
    /\ MarkerCount(d, SourcesPhase) = 1
    /\ \E h \in DOMAIN d, c \in DOMAIN d :
            d[h] = MainGroup /\ OwnsList(d, h, c, Children)
    /\ \E h \in DOMAIN d, c \in DOMAIN d :
            d[h] = SourcesPhase /\ OwnsList(d, h, c, Files)

PosOf(d, t) == CHOOSE i \in DOMAIN d : d[i] = t

\* identifiers a document mentions
IdsIn(d) == ({ d[i].id : i \in DOMAIN d } \cup { d[i].ref : i \in DOMAIN d }) \ {0}

\* number of places of d that mention identifier x
Occurrences(d, x) ==
    Cardinality({ i \in DOMAIN d : d[i].id = x })
    + Cardinality({ i \in DOMAIN d : d[i].ref = x })

\* positions of the lines of one kind that run r added
NewLines(r, kind) ==
    { i \in DOMAIN r.wrote : r.wrote[i].kind = kind /\ r.wrote[i].id \in r.ids }

\* the section of the document a kind of line is meant for
InTargetSection(d, i, kind) ==
    CASE kind = "BuildFileEntry" -> i < PosOf(d, EndBuildFile)
      [] kind = "FileRefEntry"   -> PosOf(d, EndBuildFile) < i /\ i < PosOf(d, EndFileRef)
      [] kind = "GroupEntry"     -> InListOf(d, i, MainGroup, Children)
      [] kind = "SourceEntry"    -> InListOf(d, i, SourcesPhase, Files)

\* one run added 2n fresh identifiers and n lines to each target section
AddsTwoNIdsAndNLines(r) ==
    /\ Cardinality(IdsIn(r.wrote) \ IdsIn(r.start)) = 2 * Len(files)
    /\ r.ids \cap IdsIn(r.start) = {}
    /\ \A kind \in EntryKinds :
          /\ Cardinality(NewLines(r, kind)) = Len(files)
          /\ \A i \in NewLines(r, kind) : InTargetSection(r.wrote, i, kind)

\* C1 (as stated): for a document with each anchor exactly once and ANY
\* non-empty list of n paths, a run adds exactly 2n fresh identifiers and
\* exactly n new lines in each of the four target sections.
C1_AnyList ==
    \A k \in DOMAIN log :
        WellAnchored(log[k].start) => AddsTwoNIdsAndNLines(log[k])

\* C1 (amended): for a document with each anchor exactly once and any
\* non-empty list of n pairwise distinct paths, a run adds exactly 2n fresh
\* identifiers and exactly n new lines in each of the four target sections.
C1_DistinctPaths ==
    \A k \in DOMAIN log :
        WellAnchored(log[k].start) /\ NoDuplicates(files)
            => AddsTwoNIdsAndNLines(log[k])

C1_Witness ==
    /\ pc = "done"
    /\ Len(log) = 1
    /\ WellAnchored(log[1].start)
    /\ Len(files) = 2
    /\ NoDuplicates(files)
    /\ disk = log[1].wrote

\* positions of d holding a line of the given kind for identifier x
LinesFor(d, kind, x) == { i \in DOMAIN d : d[i].kind = kind /\ d[i].id = x }

\* the file-reference entry and the group entry of path p, identifier x
HasFileRefAndGroupEntry(d, p, x) ==
    /\ Cardinality(LinesFor(d, "FileRefEntry", x)) = 1
    /\ \A i \in LinesFor(d, "FileRefEntry", x) :
          d[i].path = p /\ InTargetSection(d, i, "FileRefEntry")
    /\ Cardinality(LinesFor(d, "GroupEntry", x)) = 1
    /\ \A i \in LinesFor(d, "GroupEntry", x) :
          d[i].name = Filename(p) /\ InTargetSection(d, i, "GroupEntry")

\* C2 (as stated): after a run on a document with each anchor exactly once,
\* every generated file-reference identifier appears in exactly two places:
\* the file-reference entry and the group entry of its path.
C2_TwoPlaces ==
    \A k \in DOMAIN log :
        WellAnchored(log[k].start) /\ NoDuplicates(files) =>
            \A j \in DOMAIN log[k].refs :
                /\ Occurrences(log[k].wrote, log[k].refs[j][2]) = 2
                /\ HasFileRefAndGroupEntry(log[k].wrote, log[k].refs[j][1],
                                           log[k].refs[j][2])

\* C2 (amended): every generated file-reference identifier appears in
\* exactly three places: the file-reference entry and the group entry of its
\* path, and the fileRef field of that path's build-file entry.
C2_ThreePlaces ==
    \A k \in DOMAIN log :
        WellAnchored(log[k].start) /\ NoDuplicates(files) =>
            \A j \in DOMAIN log[k].refs :
                LET d == log[k].wrote
                    p == log[k].refs[j][1]
                    x == log[k].refs[j][2]
                IN /\ Occurrences(d, x) = 3
                   /\ HasFileRefAndGroupEntry(d, p, x)
                   /\ Cardinality({ i \in DOMAIN d : d[i].ref = x }) = 1
                   /\ \A i \in DOMAIN d : d[i].ref = x =>
                         /\ d[i].kind = "BuildFileEntry"
                         /\ d[i].id = DictGet(log[k].builds, p)
                         /\ InTargetSection(d, i, "BuildFileEntry")

C2_Witness ==
    /\ pc = "banner"
    /\ Len(log) = 1
    /\ WellAnchored(log[1].start)
    /\ NoDuplicates(files)
    /\ Len(log[1].refs) = 2
    /\ Occurrences(disk, log[1].refs[2][2]) = 3

\* C3: after a run on a document with each anchor exactly once, every
\* generated build-file identifier appears in exactly two places: the
\* build-file entry and the Sources file-list entry of its path.
C3_BuildIdTwoPlaces ==
    \A k \in DOMAIN log :
        WellAnchored(log[k].start) /\ NoDuplicates(files) =>
            \A j \in DOMAIN log[k].builds :
                LET d == log[k].wrote
                    p == log[k].builds[j][1]
                    x == log[k].builds[j][2]
                IN /\ Occurrences(d, x) = 2
                   /\ Cardinality(LinesFor(d, "BuildFileEntry", x)) = 1
                   /\ \A i \in LinesFor(d, "BuildFileEntry", x) :
                         /\ d[i].name = Filename(p)
                         /\ d[i].ref = DictGet(log[k].refs, p)
                         /\ InTargetSection(d, i, "BuildFileEntry")
                   /\ Cardinality(LinesFor(d, "SourceEntry", x)) = 1
                   /\ \A i \in LinesFor(d, "SourceEntry", x) :
                         /\ d[i].name = Filename(p)
                         /\ InTargetSection(d, i, "SourceEntry")

C3_Witness ==
    /\ pc = "paths"
    /\ Len(log) = 1
    /\ WellAnchored(log[1].start)
    /\ NoDuplicates(files)
    /\ Len(log[1].builds) = 2
    /\ Occurrences(disk, log[1].builds[1][2]) = 2

\* number of matches re.sub finds for a head ... tail span
RECURSIVE SpanMatchesFrom(_, _, _, _)
SpanMatchesFrom(d, head, tail, k) ==
    IF k > Len(d) THEN 0
    ELSE IF d[k] = head /\ (\E j \in (k + 1)..Len(d) : d[j] = tail)
         THEN 1 + SpanMatchesFrom(d, head, tail,
                    1 + CHOOSE j \in (k + 1)..Len(d) :
                            d[j] = tail /\ \A m \in (k + 1)..(j - 1) : d[m] # tail)
         ELSE SpanMatchesFrom(d, head, tail, k + 1)

\* how often the anchor pattern of a kind of line matches in d
AnchorMatches(d, kind) ==
    CASE kind = "BuildFileEntry" -> MarkerCount(d, EndBuildFile)
      [] kind = "FileRefEntry"   -> MarkerCount(d, EndFileRef)
      [] kind = "GroupEntry"     -> SpanMatchesFrom(d, MainGroup, Children, 1)
      [] kind = "SourceEntry"    -> SpanMatchesFrom(d, SourcesPhase, Files, 1)

\* the lines the run accumulated for a kind
Accumulated(r, kind) ==
    CASE kind = "BuildFileEntry" -> Len(r.builds)
      [] kind = "FileRefEntry"   -> Len(r.refs)
      [] kind = "GroupEntry"     -> Len(files)
      [] kind = "SourceEntry"    -> Len(files)

\* C4 (as stated): an anchor pattern that matches at several positions is
\* substituted at the first one only: the accumulated lines of the section
\* are in the written document exactly once.
C4_FirstMatchOnly ==
    \A k \in DOMAIN log : \A kind \in EntryKinds :
        AnchorMatches(log[k].start, kind) > 1 =>
            Cardinality(NewLines(log[k], kind)) = Accumulated(log[k], kind)

\* the document without the lines that mention one of the identifiers
Without(d, ids) ==
    LET Kept(t) == t.id \notin ids
    IN SelectSeq(d, Kept)

\* C5: whatever subset of the four anchor patterns is absent, the run goes
\* on to write the file; a section whose anchor is absent gets no line, a
\* section whose anchor is present gets its lines, and nothing else changes.
C5_MissingAnchorIsNoOp ==
    \A k \in DOMAIN log :
        /\ \A kind \in EntryKinds :
              LET matches == AnchorMatches(log[k].start, kind)
                  added   == Cardinality(NewLines(log[k], kind))
              IN /\ matches = 0 => added = 0
                 /\ matches >= 1 => added >= Accumulated(log[k], kind)
                 /\ matches = 1 => added = Accumulated(log[k], kind)
        /\ Without(log[k].wrote, log[k].ids) = log[k].start

C5_Witness ==
    /\ pc = "done"
    /\ Len(log) = 1
    /\ AnchorMatches(log[1].start, "GroupEntry") = 0
    /\ AnchorMatches(log[1].start, "BuildFileEntry") = 1
    /\ AnchorMatches(log[1].start, "FileRefEntry") = 1
    /\ AnchorMatches(log[1].start, "SourceEntry") = 1
    /\ NewLines(log[1], "GroupEntry") = {}
    /\ Cardinality(NewLines(log[1], "SourceEntry")) = Len(files)
    /\ disk = log[1].wrote
    /\ disk # log[1].start

\* the identifier a run gave path p for a kind of line
IdOf(r, kind, p) ==
    IF kind \in {"BuildFileEntry", "SourceEntry"}
    THEN DictGet(r.builds, p)
    ELSE DictGet(r.refs, p)

AllAnchorsPresent(d) == \A kind \in EntryKinds : AnchorMatches(d, kind) >= 1

\* C6: two runs in sequence on a document with all anchors present: the
\* second run's 2n identifiers are distinct from the first run's, every path
\* has its entries twice over in each of the four sections (one set per run),
\* and the second output differs from the first.
C6_NotIdempotent ==
    Len(log) >= 2 /\ AllAnchorsPresent(log[1].start) =>
        /\ log[2].start = log[1].wrote
        /\ log[2].wrote # log[1].wrote
        /\ Cardinality(log[1].ids) = 2 * Len(files)
        /\ Cardinality(log[2].ids) = 2 * Len(files)
        /\ log[1].ids \cap log[2].ids = {}
        /\ \A j \in DOMAIN files : \A kind \in EntryKinds :
              LET first  == LinesFor(log[2].wrote, kind, IdOf(log[1], kind, files[j]))
                  second == LinesFor(log[2].wrote, kind, IdOf(log[2], kind, files[j]))
              IN /\ first # {}
                 /\ second # {}
                 /\ Cardinality(second) = Cardinality(first)

C6_Witness ==
    /\ pc = "done"
    /\ Len(log) = 2
    /\ WellAnchored(log[1].start)
    /\ Len(files) = 2
    /\ NoDuplicates(files)
    /\ disk = log[2].wrote
    /\ Cardinality(NewLines(log[2], "GroupEntry")) = 2
    /\ Cardinality({ i \in DOMAIN disk : disk[i].kind = "GroupEntry" }) = 4

\* C7 (as stated): a run that fails, at the read or at the write, leaves the
\* on-disk document as it was before the run.
C7_FailureLeavesDiskUntouched ==
    pc = "failed" => disk = before

\* the lines a run is expected to add, in the order of the input list
ExpectedLine(r, kind, j) ==
    CASE kind = "BuildFileEntry" ->
            BuildFileEntry(DictGet(r.builds, files[j]), Filename(files[j]),
                           DictGet(r.refs, files[j]))
      [] kind = "FileRefEntry" ->
            FileRefEntry(DictGet(r.refs, files[j]), Filename(files[j]), files[j])
      [] kind = "GroupEntry" ->
            GroupEntry(DictGet(r.refs, files[j]), Filename(files[j]))
      [] kind = "SourceEntry" ->
            SourceEntry(DictGet(r.builds, files[j]), Filename(files[j]))

\* position of the list opener of the object headed by head
OpenerOf(d, head, opener) ==
    CHOOSE c \in DOMAIN d : \E h \in DOMAIN d : d[h] = head /\ OwnsList(d, h, c, opener)

\* C8: for a document with each anchor exactly once, the written document is
\* the original plus the inserted lines and nothing else: build-file and
\* file-reference lines immediately before their End markers, group and
\* Sources entries immediately after their list openers, all in input order;
\* removing the inserted lines gives back the original.
C8_OnlyInsertions ==
    \A k \in DOMAIN log :
        WellAnchored(log[k].start) /\ NoDuplicates(files) =>
            LET r == log[k]
                d == log[k].wrote
                n == Len(files)
            IN /\ Len(d) = Len(r.start) + 4 * n
               /\ Without(d, r.ids) = r.start
               /\ \A j \in 1..n :
                     /\ d[PosOf(d, EndBuildFile) - n - 1 + j]
                            = ExpectedLine(r, "BuildFileEntry", j)
                     /\ d[PosOf(d, EndFileRef) - n - 1 + j]
                            = ExpectedLine(r, "FileRefEntry", j)
                     /\ d[OpenerOf(d, MainGroup, Children) + j]
                            = ExpectedLine(r, "GroupEntry", j)
                     /\ d[OpenerOf(d, SourcesPhase, Files) + j]
                            = ExpectedLine(r, "SourceEntry", j)

C8_Witness ==
    /\ pc = "done"
    /\ Len(log) = 2
    /\ WellAnchored(log[2].start)
    /\ files = << <<"A", "/", "B">>, <<"B">> >>
    /\ Len(disk) = Len(log[1].start) + 16
    /\ disk[OpenerOf(disk, MainGroup, Children) + 2] = ExpectedLine(log[2], "GroupEntry", 2)

\* the whole console summary of a run
Summary == <<Banner(Len(files))>> \o [j \in DOMAIN files |-> PathLine(files[j])]

\* C9: the summary is printed only after the write-back has completed: a
\* successful run prints the banner and then one line per path of the input
\* list, in list order; a run that fails at the read or the write prints
\* nothing.
C9_SummaryOnlyAfterWrite ==
    /\ out # <<>> =>
          /\ pc \in {"paths", "done"}
          /\ Len(log) = runs
          /\ disk = content
          /\ Len(out) <= Len(Summary)
          /\ out = SubSeq(Summary, 1, Len(out))
    /\ pc = "done" => out = Summary
    /\ pc \in {"read", "generate", "filerefs", "group", "sources", "open",
                "write", "banner", "failed"} => out = <<>>

C9_Witness ==
    /\ pc = "done"
    /\ runs = 2
    /\ Len(files) = 2
    /\ out = <<Banner(2), PathLine(files[1]), PathLine(files[2])>>
    /\ files[1] # files[2]

\* C10 (as stated): group entries land in the children list of the object
\* named by the main-group identifier, Sources entries in the files list of
\* the object named by the Sources identifier, never in a list of another
\* object that follows it.
C10_EntriesInAnchoredNode ==
    \A k \in DOMAIN log :
        /\ \A i \in NewLines(log[k], "GroupEntry") :
              InListOf(log[k].wrote, i, MainGroup, Children)
        /\ \A i \in NewLines(log[k], "SourceEntry") :
              InListOf(log[k].wrote, i, SourcesPhase, Files)

====
